---------------------------- MODULE Spec2Model ----------------------------
(***************************************************************************)
(* embedded-hal-vcd: atomic pin cells, pin handles, the VCD reader         *)
(* (decoder) and the VCD writer (encoder), as a state machine.             *)
(*                                                                         *)
(* u64 values are kept at their width: TLC's integers are 32 bits wide, so *)
(* a u64 is a tuple of four 16-bit limbs, least significant first.         *)
(***************************************************************************)
EXTENDS Naturals, Sequences, FiniteSets, TLC

VARIABLES
  header,    \* reader: the parsed VCD header of the input (vcd::Header)
  body,      \* reader: the body of the input, a sequence of parser commands
  rphase,    \* reader: "unbuilt", "ready", "error" (Err returned), "panicked"
  scale,     \* reader: VcdReader.scale (Generic<u64>)
  pos,       \* reader: number of body commands the parser has consumed
  pins,      \* reader: VcdReader.pins, IdCode -> cell (FnvHashMap)
  cells,     \* every Arc<AtomicPinState> created so far, with its handle
  returned,  \* reader: the values returned by the next() calls so far
  caller,    \* writer: who calls it: any caller, or a test with its script
  pc,        \* writer: calls of the test's script made so far
  wphase,    \* writer: "none", "builder", "lib_builder" (lib.rs), "writer"
  wpins,     \* writer: the pins Vec of (IdCode, cell), in registration order
  out,       \* writer: what has been written to the sink, token by token
  idcount,   \* writer: identifiers the vcd::Writer has handed out
  depth,     \* writer: scopes the vcd::Writer has open
  wlog,      \* writer: the timestamp() and sample() calls made so far
  last       \* the last call of the reader, the writer or an output handle

rvars == <<header, body, rphase, scale, pos, pins, returned>>
wvars == <<caller, pc, wphase, wpins, out, idcount, depth, wlog>>
vars == <<rvars, wvars, cells, last>>

\* Option<T>: the empty tuple is None, a one-element tuple is Some(x)
None == << >>
Some(x) == <<x>>

----------------------------------------------------------------------------
(* Bounds of the model. *)

\* longest body enumerated exhaustively (the test trace is added to these)
MaxBody == 2
\* most cells (Arc<AtomicPinState>) the reader creates in one run
MaxCells == 3
\* most timestamp() and sample() calls any caller makes
MaxCalls == 2
\* most handles a caller makes itself over cells of its own
MaxHandles == 1
\* longest trace the example in_out replays, enumerated exhaustively
MaxTrace == 3
\* most writes a producer thread makes while the writer samples
MaxWrites == 2

----------------------------------------------------------------------------
(* u64 arithmetic on 16-bit limbs. *)

LimbBase == 2^16

\* a small natural as a u64
U(n) == <<n % LimbBase, n \div LimbBase, 0, 0>>

U64Max == <<LimbBase - 1, LimbBase - 1, LimbBase - 1, LimbBase - 1>>

\* x * k for a u64 x and a multiplier k < 2^15: the low 64 bits and the
\* carry out of bit 63
MulSmall(x, k) ==
  LET p1 == x[1] * k
      p2 == x[2] * k + (p1 \div LimbBase)
      p3 == x[3] * k + (p2 \div LimbBase)
      p4 == x[4] * k + (p3 \div LimbBase)
  IN  [lo    |-> <<p1 % LimbBase, p2 % LimbBase, p3 % LimbBase, p4 % LimbBase>>,
       carry |-> p4 \div LimbBase]

\* `x as u32`: the low 32 bits of a u64
AsU32(x) == <<x[1], x[2], 0, 0>>

----------------------------------------------------------------------------
(* pins.rs: PinState, its usize encoding and the VCD value mapping. *)

PinState == {"High", "Low", "Floating"}

VcdValue == {"V0", "V1", "X", "Z"}

\* a mutant: the discriminants start at 0
to_usize_ZeroBased(s) ==
  CASE s = "High" -> 0
    [] s = "Low" -> 1
    [] s = "Floating" -> 2

\* #[derive(ToPrimitive)] on enum PinState { High = 1, Low, Floating }
to_usize(s) ==
  CASE s = "High" -> 1
    [] s = "Low" -> 2
    [] s = "Floating" -> 3

\* #[derive(FromPrimitive)]: None for a value that is no discriminant
from_usize(n) ==
  CASE n = 1 -> "High"
    [] n = 2 -> "Low"
    [] n = 3 -> "Floating"
    [] OTHER -> "unwrap of None"

\* impl From<vcd::Value> for PinState
PinStateFromValue(val) ==
  CASE val = "V0" -> "Low"
    [] val = "V1" -> "High"
    [] val = "Z" -> "Floating"
    [] val = "X" -> "Floating"

\* a mutant: Floating written as the unknown value
ValueFromPinState_FloatingAsX(state) ==
  CASE state = "High" -> "V1"
    [] state = "Low" -> "V0"
    [] state = "Floating" -> "X"

\* impl From<PinState> for vcd::Value
ValueFromPinState(state) ==
  CASE state = "High" -> "V1"
    [] state = "Low" -> "V0"
    [] state = "Floating" -> "Z"

\* AtomicPinState::new_with_state
new_with_state(state) == to_usize(state)

\* AtomicPinState::load: the PinState of the stored usize
load(c) == from_usize(cells[c].state)

\* AtomicPinState::store on cell c of the cell table cs; written records the
\* PinState the most recent store was called with
store(cs, c, state) ==
  [cs EXCEPT ![c].state = to_usize(state), ![c].written = state]

\* a mutant: everything that is not High reads as low
InputPin_try_is_low_NotHigh(c) == load(c) # "High"

\* impl hal::InputPin for InputPin
InputPin_try_is_high(c) == load(c) = "High"
InputPin_try_is_low(c) == load(c) = "Low"

\* impl hal::InputPin for PushPullPin, impl hal::StatefulOutputPin for PushPullPin
PushPullPin_try_is_high(c) == load(c) = "High"
PushPullPin_try_is_low(c) == load(c) = "Low"
PushPullPin_try_is_set_high(c) == load(c) = "High"
PushPullPin_try_is_set_low(c) == load(c) = "Low"

\* impl hal::InputPin for OpenDrainPin, impl hal::StatefulOutputPin for OpenDrainPin
OpenDrainPin_try_is_high(c) == load(c) = "High"
OpenDrainPin_try_is_low(c) == load(c) = "Low"
OpenDrainPin_try_is_set_high(c) == load(c) = "Low"
OpenDrainPin_try_is_set_low(c) == load(c) = "Floating"

\* lib.rs: impl hal::InputPin for OpenGainPin
OpenGainPin_try_is_high(c) == load(c) = "High"
OpenGainPin_try_is_low(c) == load(c) = "Low"

HandleKinds == {"InputPin", "PushPullPin", "OpenDrainPin", "OpenGainPin"}
OutputKinds == {"PushPullPin", "OpenDrainPin", "OpenGainPin"}

\* is_high / is_low through the handle of cell c, whatever its variant
try_is_high(c) ==
  CASE cells[c].kind = "InputPin" -> InputPin_try_is_high(c)
    [] cells[c].kind = "PushPullPin" -> PushPullPin_try_is_high(c)
    [] cells[c].kind = "OpenDrainPin" -> OpenDrainPin_try_is_high(c)
    [] cells[c].kind = "OpenGainPin" -> OpenGainPin_try_is_high(c)

try_is_low(c) ==
  CASE cells[c].kind = "InputPin" -> InputPin_try_is_low(c)
    [] cells[c].kind = "PushPullPin" -> PushPullPin_try_is_low(c)
    [] cells[c].kind = "OpenDrainPin" -> OpenDrainPin_try_is_low(c)
    [] cells[c].kind = "OpenGainPin" -> OpenGainPin_try_is_low(c)

----------------------------------------------------------------------------
(* The reader's input: a header and a body, as the vcd parser delivers     *)
(* them (vcd::Header and the vcd::Command items of the parser iterator).   *)

\* vcd::TimescaleUnit::divisor, as used by timescale_to_duration
Thousands(n) == IF n = 0 THEN U(1)
                ELSE IF n = 1 THEN U(1000)
                ELSE IF n = 2 THEN MulSmall(U(1000), 1000).lo
                ELSE IF n = 3 THEN MulSmall(MulSmall(U(1000), 1000).lo, 1000).lo
                ELSE IF n = 4 THEN MulSmall(MulSmall(MulSmall(U(1000), 1000).lo, 1000).lo, 1000).lo
                ELSE MulSmall(MulSmall(MulSmall(MulSmall(U(1000), 1000).lo, 1000).lo, 1000).lo, 1000).lo

divisor(unit) ==
  CASE unit = "s" -> Thousands(0)
    [] unit = "ms" -> Thousands(1)
    [] unit = "us" -> Thousands(2)
    [] unit = "ns" -> Thousands(3)
    [] unit = "ps" -> Thousands(4)
    [] unit = "fs" -> Thousands(5)

Var(path, code) == [path |-> path, code |-> code]

\* the header of the reader's test: $timescale 1ns, $var wire 1 t test
HeaderSimple ==
  [malformed |-> FALSE, timescale |-> Some([scale |-> 1, unit |-> "ns"]),
   vars |-> << Var(<<"logic", "test">>, "t") >>]

\* two declared variables and a scale other than 1
HeaderTwoVars ==
  [malformed |-> FALSE, timescale |-> Some([scale |-> 10, unit |-> "us"]),
   vars |-> << Var(<<"logic", "test">>, "t"), Var(<<"logic", "clk">>, "c") >>]

\* a well-formed header that declares no timescale
HeaderNoTimescale ==
  [malformed |-> FALSE, timescale |-> None,
   vars |-> << Var(<<"logic", "test">>, "t") >>]

\* a header parse_header() rejects
HeaderMalformed ==
  [malformed |-> TRUE, timescale |-> None, vars |-> << >>]

\* a header that declares scale n of a unit and no variable
HeaderOfUnit(n, unit) ==
  [malformed |-> FALSE, timescale |-> Some([scale |-> n, unit |-> unit]),
   vars |-> << >>]

Headers ==
  {HeaderSimple, HeaderTwoVars, HeaderNoTimescale, HeaderMalformed,
   HeaderOfUnit(1, "s"), HeaderOfUnit(5, "ms"), HeaderOfUnit(1, "ps"),
   HeaderOfUnit(100, "fs")}

\* the paths callers ask get_pin for; the last one is declared by no header
Paths == {<<"logic", "test">>, <<"logic", "clk">>, <<"logic", "nope">>}

Timestamp(t) == [cmd |-> "Timestamp", t |-> t, id |-> "", val |-> ""]
ChangeScalar(id, val) == [cmd |-> "ChangeScalar", t |-> U(0), id |-> id, val |-> val]
\* any other item of the parser iterator: a vector change, a parse error
Other == [cmd |-> "Other", t |-> U(0), id |-> "", val |-> ""]

\* the body of the reader's test read_simple
TestBody ==
  << Timestamp(U(0)), ChangeScalar("t", "V0"),
     Timestamp(U(100)), ChangeScalar("t", "V1"),
     Timestamp(U(200)), ChangeScalar("t", "V1"),
     Timestamp(U(300)), ChangeScalar("t", "V0"),
     Timestamp(U(400)), Timestamp(U(500)) >>

\* a body with all four scalar values and a marker after the last change
FourValueBody ==
  << ChangeScalar("t", "Z"), Timestamp(U(0)), ChangeScalar("t", "X"),
     Timestamp(U(100)), ChangeScalar("t", "V1"), ChangeScalar("c", "V0"),
     Timestamp(U(200)) >>

\* the commands of the exhaustively enumerated bodies; "u" is an identifier
\* no header declares
Commands ==
  {Timestamp(U(0)), Timestamp(U(100)), Timestamp(U64Max),
   ChangeScalar("t", "V0"), ChangeScalar("t", "V1"), ChangeScalar("t", "X"),
   ChangeScalar("c", "V1"), ChangeScalar("u", "V1"), Other}

SeqsUpTo(S, n) == UNION {[1..k -> S] : k \in 0..n}

Bodies == SeqsUpTo(Commands, MaxBody) \cup {TestBody, FourValueBody}

----------------------------------------------------------------------------
(* reader.rs: VcdReader. *)

\* a mutant: the lookup matches the scope and not the variable's name
find_var_ScopeOnly(h, path) ==
  IF \E i \in 1..Len(h.vars) : h.vars[i].path[1] = path[1]
  THEN Some(h.vars[CHOOSE i \in 1..Len(h.vars) :
                      /\ h.vars[i].path[1] = path[1]
                      /\ \A j \in 1..(i-1) : h.vars[j].path[1] # path[1]])
  ELSE None

\* vcd::Header::find_var as get_pin uses it: the declared variable of that
\* path, None when the header declares none
find_var(h, path) ==
  IF \E i \in 1..Len(h.vars) : h.vars[i].path = path
  THEN Some(h.vars[CHOOSE i \in 1..Len(h.vars) :
                 /\ h.vars[i].path = path
                 /\ \A j \in 1..(i-1) : h.vars[j].path # path])
  ELSE None

\* VcdReader::timescale_to_duration
timescale_to_duration(h) ==
  IF h.timescale # None
  THEN LET ts == h.timescale[1]
           fraction == [numerator |-> 1,
                        denominator |-> AsU32(divisor(ts.unit))]
       IN  Some([integer |-> ts.scale, scaling_factor |-> fraction])
  ELSE None

\* VcdReader::new
VcdReader_new ==
  /\ rphase = "unbuilt"
  /\ IF header.malformed
     THEN \* parse_header()? returns the error
          /\ rphase' = "error"
          /\ scale' = scale
          /\ last' = [op |-> "new", arg |-> << >>, ret |-> "Err"]
     ELSE IF timescale_to_duration(header) = None
     THEN \* unwrap() of None
          /\ rphase' = "panicked"
          /\ scale' = scale
          /\ last' = [op |-> "new", arg |-> << >>, ret |-> "panic"]
     ELSE /\ rphase' = "ready"
          /\ scale' = timescale_to_duration(header)[1]
          /\ last' = [op |-> "new", arg |-> << >>, ret |-> "Ok"]
  /\ UNCHANGED <<header, body, pos, pins, cells, returned, wvars>>

\* a new Arc<AtomicPinState> together with the handle made for it; init and
\* reg record the state it was made with and the next() calls made before
NewCell(state, kind, owner, code) ==
  [state |-> new_with_state(state), kind |-> kind, owner |-> owner,
   code |-> code, init |-> state, written |-> state,
   reg |-> IF owner = "reader" THEN Len(returned) ELSE 0]

ReaderCells == {c \in 1..Len(cells) : cells[c].owner = "reader"}

\* FnvHashMap::insert: the binding of key k is set, replacing an older one
MapInsert(m, k, v) == [x \in (DOMAIN m) \cup {k} |-> IF x = k THEN v ELSE m[x]]

\* a mutant: the new cell starts Low
VcdReader_get_pin_Low(path) ==
  /\ rphase = "ready"
  /\ Cardinality(ReaderCells) < MaxCells
  /\ LET v == find_var(header, path) IN
       IF v # None
       THEN /\ cells' = Append(cells, NewCell("Low", "InputPin", "reader", v[1].code))
            /\ pins' = MapInsert(pins, v[1].code, Len(cells) + 1)
            /\ last' = [op |-> "get_pin", arg |-> path, ret |-> "Some"]
       ELSE /\ UNCHANGED <<cells, pins>>
            /\ last' = [op |-> "get_pin", arg |-> path, ret |-> "None"]
  /\ UNCHANGED <<header, body, rphase, scale, pos, returned, wvars>>

\* VcdReader::get_pin
VcdReader_get_pin(path) ==
  /\ rphase = "ready"
  /\ Cardinality(ReaderCells) < MaxCells
  /\ LET v == find_var(header, path) IN
       IF v # None
       THEN /\ cells' = Append(cells, NewCell("Floating", "InputPin", "reader", v[1].code))
            /\ pins' = MapInsert(pins, v[1].code, Len(cells) + 1)
            /\ last' = [op |-> "get_pin", arg |-> path, ret |-> "Some"]
       ELSE /\ UNCHANGED <<cells, pins>>
            /\ last' = [op |-> "get_pin", arg |-> path, ret |-> "None"]
  /\ UNCHANGED <<header, body, rphase, scale, pos, returned, wvars>>

\* a mutant: an item that is no timestamp and no scalar change ends the
\* iteration
RECURSIVE Scan_ErrorEnds(_, _)
Scan_ErrorEnds(p, cs) ==
  IF p >= Len(body)
  THEN [pos |-> p, cells |-> cs, t |-> None]
  ELSE LET cmd == body[p + 1] IN
    CASE cmd.cmd = "Timestamp" -> [pos |-> p + 1, cells |-> cs, t |-> Some(cmd.t)]
      [] cmd.cmd = "ChangeScalar" ->
           IF cmd.id \in DOMAIN pins
           THEN Scan_ErrorEnds(p + 1, store(cs, pins[cmd.id], PinStateFromValue(cmd.val)))
           ELSE Scan_ErrorEnds(p + 1, cs)
      [] OTHER -> [pos |-> p + 1, cells |-> cs, t |-> None]

\* a mutant: the changes after the last timestamp are read and dropped
RECURSIVE Scan_DropsTail(_, _)
Scan_DropsTail(p, cs) ==
  IF p >= Len(body)
  THEN [pos |-> p, cells |-> cs, t |-> None]
  ELSE LET cmd == body[p + 1] IN
    CASE cmd.cmd = "Timestamp" -> [pos |-> p + 1, cells |-> cs, t |-> Some(cmd.t)]
      [] cmd.cmd = "ChangeScalar" ->
           IF /\ cmd.id \in DOMAIN pins
              /\ \E q \in (p + 2)..Len(body) : body[q].cmd = "Timestamp"
           THEN Scan_DropsTail(p + 1, store(cs, pins[cmd.id], PinStateFromValue(cmd.val)))
           ELSE Scan_DropsTail(p + 1, cs)
      [] OTHER -> Scan_DropsTail(p + 1, cs)

\* the loop of next(): from parser position p with cell table cs, consume
\* commands up to and including the next Timestamp, or to the end of input
RECURSIVE Scan(_, _)
Scan(p, cs) ==
  IF p >= Len(body)
  THEN [pos |-> p, cells |-> cs, t |-> None]
  ELSE LET cmd == body[p + 1] IN
    CASE cmd.cmd = "Timestamp" -> [pos |-> p + 1, cells |-> cs, t |-> Some(cmd.t)]
      [] cmd.cmd = "ChangeScalar" ->
           IF cmd.id \in DOMAIN pins
           THEN Scan(p + 1, store(cs, pins[cmd.id], PinStateFromValue(cmd.val)))
           ELSE Scan(p + 1, cs)
      [] OTHER -> Scan(p + 1, cs)

\* next() has returned None twice in a row: the caller's loop has ended
Exhausted ==
  /\ Len(returned) >= 2
  /\ returned[Len(returned)] = None
  /\ returned[Len(returned) - 1] = None

\* Iterator::next for VcdReader. self.scale.integer() * t is a u64
\* multiplication: on overflow a build with overflow checks panics, a build
\* without them keeps the low 64 bits.
VcdReader_next ==
  /\ rphase = "ready"
  /\ ~Exhausted
  /\ LET r == Scan(pos, cells) IN
       /\ pos' = r.pos
       /\ cells' = r.cells
       /\ IF r.t = None
          THEN /\ returned' = Append(returned, None)
               /\ rphase' = rphase
               /\ last' = [op |-> "next", arg |-> << >>, ret |-> "None"]
          ELSE LET m == MulSmall(r.t[1], scale.integer) IN
               \/ /\ returned' = Append(returned, Some(m.lo))
                  /\ rphase' = rphase
                  /\ last' = [op |-> "next", arg |-> << >>, ret |-> "Some"]
               \/ /\ m.carry # 0
                  /\ returned' = returned
                  /\ rphase' = "panicked"
                  /\ last' = [op |-> "next", arg |-> << >>, ret |-> "panic"]
  /\ UNCHANGED <<header, body, scale, pins, wvars>>

----------------------------------------------------------------------------
(* pins.rs: the output handles' writes, and a handle a caller makes itself. *)

\* the caller of the writer: anyone, within the bounds, or the script of a
\* test
CallerMay(op, arg) ==
  IF caller.name = "any" THEN TRUE
  ELSE /\ pc < Len(caller.script)
       /\ caller.script[pc + 1].op = op
       /\ caller.script[pc + 1].arg = arg

Called == IF caller.name = "any" THEN pc ELSE pc + 1

HandleOp(c, kind, op, state) ==
  /\ c \in 1..Len(cells)
  /\ cells[c].kind = kind
  /\ CallerMay(op, <<c>>)
  /\ cells' = store(cells, c, state)
  /\ pc' = Called
  /\ last' = [op |-> op, arg |-> <<c>>, ret |-> "Ok"]
  /\ UNCHANGED <<rvars, caller, wphase, wpins, out, idcount, depth, wlog>>

\* a mutant: set_low of a push-pull pin releases the line
PushPullPin_try_set_low_Releases(c) == HandleOp(c, "PushPullPin", "try_set_low", "Floating")

\* impl hal::OutputPin for PushPullPin
PushPullPin_try_set_high(c) == HandleOp(c, "PushPullPin", "try_set_high", "High")
PushPullPin_try_set_low(c) == HandleOp(c, "PushPullPin", "try_set_low", "Low")

\* a mutant: set_high of an open-drain pin drives the line high
OpenDrainPin_try_set_high_Drives(c) == HandleOp(c, "OpenDrainPin", "try_set_high", "High")

\* impl hal::OutputPin for OpenDrainPin
OpenDrainPin_try_set_high(c) == HandleOp(c, "OpenDrainPin", "try_set_high", "Low")
OpenDrainPin_try_set_low(c) == HandleOp(c, "OpenDrainPin", "try_set_low", "Floating")

\* lib.rs: impl hal::OutputPin for OpenGainPin
OpenGainPin_try_set_high(c) == HandleOp(c, "OpenGainPin", "try_set_high", "Low")
OpenGainPin_try_set_low(c) == HandleOp(c, "OpenGainPin", "try_set_low", "Floating")

----------------------------------------------------------------------------
(* writer.rs: VcdWriterBuilder and VcdWriter over a vcd::Writer. *)

\* what the vcd::Writer puts on the sink, one record per token
Token(tok, num, a, b) == [tok |-> tok, num |-> num, a |-> a, b |-> b]
TimescaleTok(n, unit) == Token("$timescale", U(n), unit, "")
ScopeTok(name) == Token("$scope", U(0), "module", name)
VarTok(width, code, name) == Token("$var", U(width), code, name)
UpscopeTok == Token("$upscope", U(0), "", "")
EndDefinitionsTok == Token("$enddefinitions", U(0), "", "")
TimestampTok(t) == Token("#", t, "", "")
ChangeTok(code, value) == Token("change", U(0), value, code)

\* the identifiers vcd::Writer::add_wire hands out, first to last
IdCodes == <<"!", "\"", "#", "$", "%", "&">>

\* VcdWriterBuilder::new_with_module; VcdWriterBuilder::new passes "top"
VcdWriterBuilder_new_with_module(module) ==
  /\ wphase = "none"
  /\ CallerMay("new_with_module", module)
  /\ wphase' = "builder"
  /\ out' = out \o << TimescaleTok(1, "ns"), ScopeTok(module) >>
  /\ depth' = depth + 1
  /\ wpins' = << >>
  /\ pc' = Called
  /\ last' = [op |-> "new_with_module", arg |-> module, ret |-> "Ok"]
  /\ UNCHANGED <<rvars, caller, idcount, wlog, cells>>

\* add_push_pull_pin / add_open_drain_pin: a wire, a cell and its handle
AddPin(op, reference, kind, state) ==
  /\ wphase = "builder"
  /\ CallerMay(op, reference)
  /\ LET code == IdCodes[idcount + 1] IN
       /\ out' = Append(out, VarTok(1, code, reference))
       /\ cells' = Append(cells, NewCell(state, kind, "writer", code))
       /\ wpins' = Append(wpins, [code |-> code, cell |-> Len(cells) + 1])
  /\ idcount' = idcount + 1
  /\ pc' = Called
  /\ last' = [op |-> op, arg |-> reference, ret |-> "Ok"]
  /\ UNCHANGED <<rvars, caller, wphase, depth, wlog>>

\* VcdWriterBuilder::add_push_pull_pin
VcdWriterBuilder_add_push_pull_pin(reference) ==
  AddPin("add_push_pull_pin", reference, "PushPullPin", "Low")

\* VcdWriterBuilder::add_open_drain_pin
VcdWriterBuilder_add_open_drain_pin(reference) ==
  AddPin("add_open_drain_pin", reference, "OpenDrainPin", "Floating")

\* VcdWriterBuilder::add_module
VcdWriterBuilder_add_module(identifier) ==
  /\ wphase = "builder"
  /\ CallerMay("add_module", identifier)
  /\ out' = Append(out, ScopeTok(identifier))
  /\ depth' = depth + 1
  /\ pc' = Called
  /\ last' = [op |-> "add_module", arg |-> identifier, ret |-> "Ok"]
  /\ UNCHANGED <<rvars, caller, wphase, wpins, idcount, wlog, cells>>

\* VcdWriterBuilder::build
VcdWriterBuilder_build ==
  /\ wphase = "builder"
  /\ CallerMay("build", "")
  /\ out' = out \o << UpscopeTok, EndDefinitionsTok >>
  /\ depth' = depth - 1
  /\ wphase' = "writer"
  /\ pc' = Called
  /\ last' = [op |-> "build", arg |-> "", ret |-> "Ok"]
  /\ UNCHANGED <<rvars, caller, wpins, idcount, wlog, cells>>

\* lib.rs: VcdWriterBuilder::new of the crate root, which keeps its own copy
\* of the builder (the VcdWriter it builds is the same)
lib_VcdWriterBuilder_new ==
  /\ wphase = "none"
  /\ CallerMay("lib::new", "")
  /\ wphase' = "lib_builder"
  /\ out' = out \o << TimescaleTok(1, "ns"), ScopeTok("top") >>
  /\ depth' = depth + 1
  /\ wpins' = << >>
  /\ pc' = Called
  /\ last' = [op |-> "lib::new", arg |-> "", ret |-> "Ok"]
  /\ UNCHANGED <<rvars, caller, idcount, wlog, cells>>

\* lib.rs: add_push_pull_pin / add_open_gain_pin
lib_AddPin(op, reference, kind, state) ==
  /\ wphase = "lib_builder"
  /\ CallerMay(op, reference)
  /\ LET code == IdCodes[idcount + 1] IN
       /\ out' = Append(out, VarTok(1, code, reference))
       /\ cells' = Append(cells, NewCell(state, kind, "lib", code))
       /\ wpins' = Append(wpins, [code |-> code, cell |-> Len(cells) + 1])
  /\ idcount' = idcount + 1
  /\ pc' = Called
  /\ last' = [op |-> op, arg |-> reference, ret |-> "Ok"]
  /\ UNCHANGED <<rvars, caller, wphase, depth, wlog>>

\* lib.rs: VcdWriterBuilder::add_push_pull_pin
lib_VcdWriterBuilder_add_push_pull_pin(reference) ==
  lib_AddPin("lib::add_push_pull_pin", reference, "PushPullPin", "Floating")

\* lib.rs: VcdWriterBuilder::add_open_gain_pin
lib_VcdWriterBuilder_add_open_gain_pin(reference) ==
  lib_AddPin("lib::add_open_gain_pin", reference, "OpenGainPin", "Floating")

\* lib.rs: VcdWriterBuilder::build
lib_VcdWriterBuilder_build ==
  /\ wphase = "lib_builder"
  /\ CallerMay("lib::build", "")
  /\ out' = out \o << UpscopeTok, EndDefinitionsTok >>
  /\ depth' = depth - 1
  /\ wphase' = "writer"
  /\ pc' = Called
  /\ last' = [op |-> "lib::build", arg |-> "", ret |-> "Ok"]
  /\ UNCHANGED <<rvars, caller, wpins, idcount, wlog, cells>>

\* a duration the caller passes to timestamp(): a count of a unit
Duration(integer, unit) == [integer |-> integer, unit |-> unit]

\* x * 1000, None when it does not fit a u64
CheckedThousand(x) ==
  IF x = None THEN None
  ELSE LET m == MulSmall(x[1], 1000) IN IF m.carry = 0 THEN Some(m.lo) ELSE None

\* a mutant: nanoseconds taken for microseconds
TryIntoNanoseconds_WrongUnit(d) ==
  CASE d.unit = "ns" -> CheckedThousand(Some(d.integer))
    [] d.unit = "us" -> CheckedThousand(Some(d.integer))
    [] d.unit = "s" -> CheckedThousand(CheckedThousand(CheckedThousand(Some(d.integer))))

\* timestamp.try_into() to Nanoseconds<u64>: the checked conversion of the
\* duration to whole nanoseconds
TryIntoNanoseconds(d) ==
  CASE d.unit = "ns" -> Some(d.integer)
    [] d.unit = "us" -> CheckedThousand(Some(d.integer))
    [] d.unit = "s" -> CheckedThousand(CheckedThousand(CheckedThousand(Some(d.integer))))

\* the states of the registered cells, in registration order
Snapshot == [i \in 1..Len(wpins) |-> from_usize(cells[wpins[i].cell].state)]

\* a call of the writer as the caller sees it: its argument, whether it
\* returned Ok, how much was on the sink before it, and for sample() the
\* states the registered cells had
LogEntry(op, arg, ok) ==
  [op |-> op, arg |-> arg, ok |-> ok, from |-> Len(out),
   snap |-> IF op = "sample" THEN Snapshot ELSE << >>]

\* a mutant: a duration that does not convert is written as #0
VcdWriter_timestamp_WritesZero(d) ==
  /\ wphase = "writer"
  /\ CallerMay("timestamp", d)
  /\ LET ts == TryIntoNanoseconds(d) IN
       IF ts = None
       THEN /\ out' = Append(out, TimestampTok(U(0)))
            /\ wlog' = Append(wlog, LogEntry("timestamp", d, FALSE))
            /\ last' = [op |-> "timestamp", arg |-> d, ret |-> "Err"]
       ELSE /\ out' = Append(out, TimestampTok(ts[1]))
            /\ wlog' = Append(wlog, LogEntry("timestamp", d, TRUE))
            /\ last' = [op |-> "timestamp", arg |-> d, ret |-> "Ok"]
  /\ pc' = Called
  /\ UNCHANGED <<rvars, caller, wphase, wpins, idcount, depth, cells>>

\* a mutant: a marker that is not later than the one written last is
\* refused
VcdWriter_timestamp_Monotonic(d) ==
  /\ wphase = "writer"
  /\ CallerMay("timestamp", d)
  /\ LET ts == TryIntoNanoseconds(d)
         marks == {i \in 1..Len(out) : out[i].tok = "#"}
         prev == out[CHOOSE i \in marks : \A j \in marks : j <= i].num
         later(x, y) == \E k \in 1..4 : /\ x[k] > y[k]
                                        /\ \A j \in (k + 1)..4 : x[j] = y[j]
     IN
       IF ts = None \/ (marks # {} /\ ~later(ts[1], prev))
       THEN /\ out' = out
            /\ wlog' = Append(wlog, LogEntry("timestamp", d, FALSE))
            /\ last' = [op |-> "timestamp", arg |-> d, ret |-> "Err"]
       ELSE /\ out' = Append(out, TimestampTok(ts[1]))
            /\ wlog' = Append(wlog, LogEntry("timestamp", d, TRUE))
            /\ last' = [op |-> "timestamp", arg |-> d, ret |-> "Ok"]
  /\ pc' = Called
  /\ UNCHANGED <<rvars, caller, wphase, wpins, idcount, depth, cells>>

\* VcdWriter::timestamp
VcdWriter_timestamp(d) ==
  /\ wphase = "writer"
  /\ CallerMay("timestamp", d)
  /\ LET ts == TryIntoNanoseconds(d) IN
       IF ts = None
       THEN \* map_err(..)? returns the InvalidInput error
            /\ out' = out
            /\ wlog' = Append(wlog, LogEntry("timestamp", d, FALSE))
            /\ last' = [op |-> "timestamp", arg |-> d, ret |-> "Err"]
       ELSE /\ out' = Append(out, TimestampTok(ts[1]))
            /\ wlog' = Append(wlog, LogEntry("timestamp", d, TRUE))
            /\ last' = [op |-> "timestamp", arg |-> d, ret |-> "Ok"]
  /\ pc' = Called
  /\ UNCHANGED <<rvars, caller, wphase, wpins, idcount, depth, cells>>

\* a mutant: only the pins whose state has changed are written
RECURSIVE SampleFrom_OnlyChanged(_)
SampleFrom_OnlyChanged(i) ==
  IF i > Len(wpins) THEN << >>
  ELSE LET state == load(wpins[i].cell) IN
       (IF state = cells[wpins[i].cell].init THEN << >>
        ELSE << ChangeTok(wpins[i].code, ValueFromPinState(state)) >>)
       \o SampleFrom_OnlyChanged(i + 1)

\* the loop of sample(): one change_scalar per entry of self.pins
RECURSIVE SampleFrom(_)
SampleFrom(i) ==
  IF i > Len(wpins) THEN << >>
  ELSE LET state == load(wpins[i].cell) IN
       << ChangeTok(wpins[i].code, ValueFromPinState(state)) >> \o SampleFrom(i + 1)

\* a mutant: sample() releases every pin it has read
VcdWriter_sample_Releases ==
  /\ wphase = "writer"
  /\ CallerMay("sample", "")
  /\ out' = out \o SampleFrom(1)
  /\ wlog' = Append(wlog, LogEntry("sample", Duration(U(0), "ns"), TRUE))
  /\ last' = [op |-> "sample", arg |-> "", ret |-> "Ok"]
  /\ pc' = Called
  /\ cells' = [c \in 1..Len(cells) |->
                 IF \E i \in 1..Len(wpins) : wpins[i].cell = c
                 THEN store(cells, c, "Floating")[c] ELSE cells[c]]
  /\ UNCHANGED <<rvars, caller, wphase, wpins, idcount, depth>>

\* VcdWriter::sample
VcdWriter_sample ==
  /\ wphase = "writer"
  /\ CallerMay("sample", "")
  /\ out' = out \o SampleFrom(1)
  /\ wlog' = Append(wlog, LogEntry("sample", Duration(U(0), "ns"), TRUE))
  /\ last' = [op |-> "sample", arg |-> "", ret |-> "Ok"]
  /\ pc' = Called
  /\ UNCHANGED <<rvars, caller, wphase, wpins, idcount, depth, cells>>

Call(op, arg) == [op |-> op, arg |-> arg]

\* the calls of the test write_simple, in order; the pin "test" is cell 1
WriteSimple ==
  << Call("new_with_module", "logic"), Call("add_push_pull_pin", "test"),
     Call("build", ""),
     Call("timestamp", Duration(U(0), "ns")), Call("try_set_low", <<1>>), Call("sample", ""),
     Call("timestamp", Duration(U(100), "ns")), Call("try_set_high", <<1>>), Call("sample", ""),
     Call("timestamp", Duration(U(200), "ns")), Call("sample", ""),
     Call("timestamp", Duration(U(300), "ns")), Call("try_set_low", <<1>>), Call("sample", ""),
     Call("timestamp", Duration(U(400), "ns")),
     Call("timestamp", Duration(U(500), "ns")) >>

\* AtomicPinState::store by a caller on a cell it made and still holds
AtomicPinState_store(c, state) ==
  /\ cells[c].owner = "user"
  /\ cells' = store(cells, c, state)
  /\ UNCHANGED <<rvars, wvars, last>>

\* AtomicPinState::load by any thread that holds the cell or a handle of it
AtomicPinState_load(c) ==
  /\ c \in 1..Len(cells)
  /\ last' = [op |-> "load", arg |-> <<c>>, ret |-> load(c)]
  /\ UNCHANGED <<rvars, wvars, cells>>

\* PushPullPin::new / OpenDrainPin::new / OpenGainPin::new / InputPin::new
\* over a cell the caller made with AtomicPinState::new_with_state
Handle_new(kind, state) ==
  /\ Cardinality({c \in 1..Len(cells) : cells[c].owner = "user"}) < MaxHandles
  /\ cells' = Append(cells, NewCell(state, kind, "user", ""))
  /\ UNCHANGED <<rvars, wvars, last>>

----------------------------------------------------------------------------
(* Specifications. *)

AnyCaller == [name |-> "any", script |-> << >>]
WriteSimpleCaller == [name |-> "write_simple", script |-> WriteSimple]

ReaderIdle ==
  /\ rphase = "unbuilt"
  /\ scale = [integer |-> 0, scaling_factor |-> [numerator |-> 0, denominator |-> U(0)]]
  /\ pos = 0
  /\ pins = << >>
  /\ returned = << >>

WriterIdle ==
  /\ pc = 0
  /\ wphase = "none"
  /\ wpins = << >>
  /\ out = << >>
  /\ idcount = 0
  /\ depth = 0
  /\ wlog = << >>

NoCall == [op |-> "init", arg |-> << >>, ret |-> "None"]

\* The reader with any caller: any header, any body up to the bounds, and
\* new / get_pin / next in any order the types allow.
Init ==
  /\ header \in Headers
  /\ body \in Bodies
  /\ ReaderIdle
  /\ caller = AnyCaller
  /\ WriterIdle
  /\ cells = << >>
  /\ last = NoCall

NextReader ==
  \/ VcdReader_new
  \/ \E path \in Paths : VcdReader_get_pin(path)
  \/ VcdReader_next

SpecReader == Init /\ [][NextReader]_vars

Spec == SpecReader

\* The writer: the test write_simple, or any caller within the bounds
\* registering pins, building, driving the handles, and calling timestamp()
\* and sample().
InitWriter ==
  /\ header = HeaderSimple
  /\ body = << >>
  /\ ReaderIdle
  /\ caller \in {AnyCaller, WriteSimpleCaller}
  /\ WriterIdle
  /\ cells = << >>
  /\ last = NoCall

\* the variables a caller registers, each once
References == {"test", "clk"}
NotRegistered(reference) ==
  \A i \in 1..Len(out) : ~(out[i].tok = "$var" /\ out[i].b = reference)

\* what any caller passes to timestamp(): 100 ns, 2 us, and a count of
\* seconds that is more than 2^64 - 1 nanoseconds
AnyDurations == {Duration(U(100), "ns"), Duration(U(2), "us"), Duration(U64Max, "s")}

\* the scope a caller names: "top" is what VcdWriterBuilder::new passes
ModulesOf == IF caller.name = "any" THEN {"top"} ELSE {"logic"}

Durations ==
  IF caller.name = "any" THEN AnyDurations
  ELSE {Duration(U(100 * k), "ns") : k \in 0..5}

AnyCall(bounded) == caller.name = "any" => bounded

NextWriter ==
  \/ \E module \in ModulesOf : VcdWriterBuilder_new_with_module(module)
  \/ \E reference \in References :
       /\ AnyCall(NotRegistered(reference))
       /\ \/ VcdWriterBuilder_add_push_pull_pin(reference)
          \/ VcdWriterBuilder_add_open_drain_pin(reference)
  \/ AnyCall(depth < 2) /\ VcdWriterBuilder_add_module("sub")
  \/ VcdWriterBuilder_build
  \/ lib_VcdWriterBuilder_new
  \/ \E reference \in References :
       /\ AnyCall(NotRegistered(reference))
       /\ \/ lib_VcdWriterBuilder_add_push_pull_pin(reference)
          \/ lib_VcdWriterBuilder_add_open_gain_pin(reference)
  \/ lib_VcdWriterBuilder_build
  \/ \E d \in Durations : AnyCall(Len(wlog) < MaxCalls) /\ VcdWriter_timestamp(d)
  \/ AnyCall(Len(wlog) < MaxCalls) /\ VcdWriter_sample
  \/ \E c \in 1..Len(cells) :
       \/ PushPullPin_try_set_high(c)
       \/ PushPullPin_try_set_low(c)
       \/ OpenDrainPin_try_set_high(c)
       \/ OpenDrainPin_try_set_low(c)

SpecWriter == InitWriter /\ [][NextWriter]_vars

\* The pin handles: a cell of the reader and cells a caller makes itself, of
\* every variant and initial state, written through their handles, by the
\* reader, and by the caller's own store on a cell it holds.
InitPins ==
  /\ header = HeaderSimple
  /\ body = FourValueBody
  /\ ReaderIdle
  /\ caller = AnyCaller
  /\ WriterIdle
  /\ cells = << >>
  /\ last = NoCall

NextPins ==
  \/ VcdReader_new
  \/ Cardinality(ReaderCells) < 1 /\ VcdReader_get_pin(<<"logic", "test">>)
  \/ VcdReader_next
  \/ \E kind \in HandleKinds, state \in PinState : Handle_new(kind, state)
  \/ \E c \in 1..Len(cells), state \in PinState : AtomicPinState_store(c, state)
  \/ \E c \in 1..Len(cells) : AtomicPinState_load(c)
  \/ \E c \in 1..Len(cells) :
       \/ PushPullPin_try_set_high(c)
       \/ PushPullPin_try_set_low(c)
       \/ OpenDrainPin_try_set_high(c)
       \/ OpenDrainPin_try_set_low(c)
       \/ OpenGainPin_try_set_high(c)
       \/ OpenGainPin_try_set_low(c)

SpecPins == InitPins /\ [][NextPins]_vars

\* examples/in_out.rs: main copies a trace from a reader to a writer. Where
\* main stands follows from what it has called so far.
main_at ==
  IF rphase = "unbuilt" THEN "VcdReader::new"
  ELSE IF rphase # "ready" THEN "aborted"
  ELSE IF ReaderCells = {} THEN "get_pin"
  ELSE IF wphase = "none" THEN "VcdWriterBuilder::new"
  ELSE IF wphase = "builder" /\ wpins = << >> THEN "add_push_pull_pin"
  ELSE IF wphase = "builder" THEN "build"
  ELSE IF returned = << >> THEN "first next"
  ELSE IF Len(returned) = 1 /\ returned[1] = None THEN "aborted"
  ELSE IF wlog = << >> THEN "first timestamp"
  ELSE CASE last.op = "timestamp" -> IF last.ret = "Ok" THEN "next" ELSE "aborted"
         [] last.op = "next" -> "copy_pins"
         [] last.op \in {"try_set_high", "try_set_low"} -> "sample"
         [] last.op = "sample" ->
              IF returned[Len(returned)] = None THEN "done" ELSE "timestamp"

\* the closure copy_pins of main
copy_pins ==
  LET in_pin == CHOOSE c \in ReaderCells : TRUE
      out_pin == wpins[1].cell
  IN  IF InputPin_try_is_high(in_pin)
      THEN PushPullPin_try_set_high(out_pin)
      ELSE PushPullPin_try_set_low(out_pin)

\* the Generic<u64> next() returned, as main passes it to timestamp()
GenericOf(t) == Duration(t[1], header.timescale[1].unit)

\* the traces main replays: one signal, values 0 and 1, timescale 1 ns
ReplayCommands ==
  {Timestamp(U(0)), Timestamp(U(100)), ChangeScalar("t", "V0"), ChangeScalar("t", "V1")}

ReplayBodies == SeqsUpTo(ReplayCommands, MaxTrace) \cup {TestBody}

InitReplay ==
  /\ header = HeaderSimple
  /\ body \in ReplayBodies
  /\ ReaderIdle
  /\ caller = AnyCaller
  /\ WriterIdle
  /\ cells = << >>
  /\ last = NoCall

NextReplay ==
  \/ main_at = "VcdReader::new" /\ VcdReader_new
  \/ main_at = "get_pin" /\ VcdReader_get_pin(<<"logic", "test">>)
  \/ main_at = "VcdWriterBuilder::new" /\ VcdWriterBuilder_new_with_module("top")
  \/ main_at = "add_push_pull_pin" /\ VcdWriterBuilder_add_push_pull_pin("data")
  \/ main_at = "build" /\ VcdWriterBuilder_build
  \/ main_at \in {"first next", "next"} /\ VcdReader_next
  \/ main_at \in {"first timestamp", "timestamp"}
       /\ VcdWriter_timestamp(GenericOf(returned[Len(returned)]))
  \/ main_at = "copy_pins" /\ copy_pins
  \/ main_at = "sample" /\ VcdWriter_sample

SpecReplay == InitReplay /\ [][NextReplay]_vars

----------------------------------------------------------------------------
(* writer.rs: sample() with a producer thread. The loop of sample() is     *)
(* taken one iteration at a time, each a load of one cell and the write of *)
(* its change, and the producer's stores fall between them. The log keeps  *)
(* the sample() calls and the producer's stores in their order.            *)

SampleCalls == {k \in 1..Len(wlog) : wlog[k].op = "sample"}

\* the sample() call made last
CurrentCall == CHOOSE k \in SampleCalls : \A j \in SampleCalls : j <= k

\* a sample() call has not yet loaded all its pins
Sampling ==
  /\ SampleCalls # {}
  /\ Len(out) < wlog[CurrentCall].from + Len(wpins)

\* VcdWriter::sample is entered
VcdWriter_sample_call ==
  /\ wphase = "writer"
  /\ ~Sampling
  /\ wlog' = Append(wlog, LogEntry("sample", Duration(U(0), "ns"), TRUE))
  /\ last' = IF wpins = << >> THEN [op |-> "sample", arg |-> "", ret |-> "Ok"] ELSE last
  /\ UNCHANGED <<rvars, caller, pc, wphase, wpins, out, idcount, depth, cells>>

\* a mutant: the states are all taken when sample() is entered
VcdWriter_sample_iteration_Snapshot ==
  /\ wphase = "writer"
  /\ Sampling
  /\ LET i == Len(out) - wlog[CurrentCall].from + 1
         state == wlog[CurrentCall].snap[i]
     IN /\ out' = Append(out, ChangeTok(wpins[i].code, ValueFromPinState(state)))
        /\ last' = IF i = Len(wpins) THEN [op |-> "sample", arg |-> "", ret |-> "Ok"] ELSE last
  /\ UNCHANGED <<rvars, caller, pc, wphase, wpins, idcount, depth, wlog, cells>>

\* one iteration of the loop of VcdWriter::sample: pin.load and
\* change_scalar for the next entry of self.pins
VcdWriter_sample_iteration ==
  /\ wphase = "writer"
  /\ Sampling
  /\ LET i == Len(out) - wlog[CurrentCall].from + 1
         state == load(wpins[i].cell)
     IN /\ out' = Append(out, ChangeTok(wpins[i].code, ValueFromPinState(state)))
        /\ last' = IF i = Len(wpins) THEN [op |-> "sample", arg |-> "", ret |-> "Ok"] ELSE last
  /\ UNCHANGED <<rvars, caller, pc, wphase, wpins, idcount, depth, wlog, cells>>

\* try_set_high / try_set_low of an output handle called by a producer
\* thread: the store, logged with the states the registered cells have
\* after it
Producer(c, kind, op, state) ==
  /\ c \in 1..Len(cells)
  /\ cells[c].kind = kind
  /\ cells' = store(cells, c, state)
  /\ wlog' = Append(wlog,
       [op |-> op, arg |-> Duration(U(0), "ns"), ok |-> TRUE, from |-> Len(out),
        snap |-> [i \in 1..Len(wpins) |->
                    from_usize(store(cells, c, state)[wpins[i].cell].state)]])
  /\ last' = [op |-> op, arg |-> <<c>>, ret |-> "Ok"]
  /\ UNCHANGED <<rvars, caller, pc, wphase, wpins, out, idcount, depth>>

Producer_PushPullPin_try_set_high(c) == Producer(c, "PushPullPin", "try_set_high", "High")
Producer_PushPullPin_try_set_low(c) == Producer(c, "PushPullPin", "try_set_low", "Low")
Producer_OpenDrainPin_try_set_high(c) == Producer(c, "OpenDrainPin", "try_set_high", "Low")
Producer_OpenDrainPin_try_set_low(c) == Producer(c, "OpenDrainPin", "try_set_low", "Floating")

InitSampling ==
  /\ header = HeaderSimple
  /\ body = << >>
  /\ ReaderIdle
  /\ caller = AnyCaller
  /\ WriterIdle
  /\ cells = << >>
  /\ last = NoCall

NextSampling ==
  \/ VcdWriterBuilder_new_with_module("top")
  \/ \E reference \in References :
       /\ NotRegistered(reference)
       /\ \/ VcdWriterBuilder_add_push_pull_pin(reference)
          \/ VcdWriterBuilder_add_open_drain_pin(reference)
  \/ VcdWriterBuilder_build
  \/ Cardinality(SampleCalls) < MaxCalls /\ VcdWriter_sample_call
  \/ VcdWriter_sample_iteration
  \/ \E c \in 1..Len(cells) :
       /\ wphase = "writer"
       /\ Len(wlog) - Cardinality(SampleCalls) < MaxWrites
       /\ \/ Producer_PushPullPin_try_set_high(c)
          \/ Producer_PushPullPin_try_set_low(c)
          \/ Producer_OpenDrainPin_try_set_high(c)
          \/ Producer_OpenDrainPin_try_set_low(c)

SpecSampling == InitSampling /\ [][NextSampling]_vars

----------------------------------------------------------------------------
(* What the claims speak of, stated on the input file itself. *)

\* the path is declared by the header
Declared(h, path) == \E i \in 1..Len(h.vars) : h.vars[i].path = path

\* the timestamp markers of a body, in file order
Markers(b) == SelectSeq(b, LAMBDA cmd : cmd.cmd = "Timestamp")

\* the PinState of the last scalar change for identifier id among the
\* first n commands of body b, Floating if there is none
LastChange(b, n, id) ==
  LET at == {i \in 1..n : b[i].cmd = "ChangeScalar" /\ b[i].id = id} IN
    IF at = {} THEN "Floating"
    ELSE PinStateFromValue(b[CHOOSE i \in at : \A j \in at : j <= i].val)

\* the cells of the handles get_pin returned before the first next()
EarlyPins == {c \in 1..Len(cells) : cells[c].owner = "reader" /\ cells[c].reg = 0}

\* next() has just returned the timestamp of a marker
AtMarker == rphase = "ready" /\ last.op = "next" /\ last.ret = "Some"

\* is_high at the six timestamps of the test read_simple
ReadSimpleStates == <<FALSE, FALSE, TRUE, TRUE, FALSE, FALSE>>

----------------------------------------------------------------------------
(* Claims. *)

\* C1: when next() returns the timestamp of a marker, the cell of every pin
\* registered before the first advance holds the mapped value of the last
\* scalar change for its identifier before that marker (Floating if none),
\* and on the test trace of read_simple is_high reads
\* false,false,true,true,false,false at the six timestamps.
C1_TimingContract ==
  AtMarker =>
    \A c \in EarlyPins :
      /\ load(c) = LastChange(body, pos - 1, cells[c].code)
      /\ (header = HeaderSimple /\ body = TestBody)
           => InputPin_try_is_high(c) = ReadSimpleStates[Len(returned)]

\* The same for the cell get_pin bound last to its identifier (the one the
\* reader's table holds): the timing of next() itself.
C1_TimingOfBoundCells ==
  AtMarker =>
    \A id \in DOMAIN pins :
      /\ cells[pins[id]].reg = 0 => load(pins[id]) = LastChange(body, pos - 1, id)
      /\ (header = HeaderSimple /\ body = TestBody /\ cells[pins[id]].reg = 0)
           => InputPin_try_is_high(pins[id]) = ReadSimpleStates[Len(returned)]

\* C2: the values next() returns are the markers of the body in file order,
\* each the exact product of its tick and the header's scale, then
\* end-of-sequence; #500 under timescale 1 ns is 500 ns.
C2_TimestampSequence ==
  (header.timescale # None /\ rphase \in {"ready", "panicked"}) =>
    /\ ~(last.op = "next" /\ last.ret = "panic")
    /\ \A i \in 1..Len(returned) :
         IF i <= Len(Markers(body))
         THEN LET m == MulSmall(Markers(body)[i].t, header.timescale[1].scale) IN
                /\ m.carry = 0
                /\ returned[i] = Some(m.lo)
         ELSE returned[i] = None
    /\ (header = HeaderSimple /\ body = TestBody /\ Len(returned) >= 6)
         => /\ returned[6] = Some(U(500))
            /\ scale.scaling_factor = [numerator |-> 1, denominator |-> Thousands(3)]

\* the product of a tick and the scale fits 64 bits
Fits(cmd) == MulSmall(cmd.t, header.timescale[1].scale).carry = 0

\* The same on the bodies whose products fit 64 bits.
C2_SequenceWhenProductsFit ==
  (header.timescale # None /\ rphase \in {"ready", "panicked"}
     /\ \A i \in 1..Len(Markers(body)) : Fits(Markers(body)[i])) =>
    /\ rphase = "ready"
    /\ \A i \in 1..Len(returned) :
         IF i <= Len(Markers(body))
         THEN returned[i] = Some(MulSmall(Markers(body)[i].t, header.timescale[1].scale).lo)
         ELSE returned[i] = None

\* C9: constructing a reader over a well-formed header without a timescale
\* returns an error value to the caller: no reader, and no abort.
C9_MissingTimescaleIsAnError ==
  (last.op = "new" /\ ~header.malformed /\ header.timescale = None) =>
    /\ last.ret = "Err"
    /\ rphase = "error"

\* C10: get_pin on a path the header does not declare returns None, creates
\* no binding, leaves the table and every cell as they were, and the reader
\* still serves get_pin and next().
C10_LookupMiss ==
  /\ [][\A path \in Paths :
          (VcdReader_get_pin(path) /\ ~Declared(header, path)) =>
             /\ last'.ret = "None"
             /\ pins' = pins
             /\ cells' = cells
             /\ rphase' = "ready"
             /\ pos' = pos
             /\ returned' = returned]_vars
  /\ []((last.op = "get_pin" /\ last.ret = "None") =>
          /\ Exhausted \/ ENABLED VcdReader_next
          /\ \A path \in Paths : Cardinality(ReaderCells) < MaxCells => ENABLED VcdReader_get_pin(path))

\* get_pin missed while a cell driven by the body is bound
C10_Witness ==
  /\ last.op = "get_pin" /\ last.ret = "None"
  /\ last.arg = <<"logic", "nope">>
  /\ \E id \in DOMAIN pins : load(pins[id]) = "High"
  /\ ENABLED VcdReader_next

----------------------------------------------------------------------------
(* Claims about the writer. *)

\* the VCD scalar value that stands for a pin state
Encoding(state) ==
  CASE state = "High" -> "V1"
    [] state = "Low" -> "V0"
    [] state = "Floating" -> "Z"

\* what call k of the log put on the sink
Emitted(k) ==
  SubSeq(out, wlog[k].from + 1,
         IF k < Len(wlog) THEN wlog[k + 1].from ELSE Len(out))

Samples == {k \in 1..Len(wlog) : wlog[k].op = "sample"}

\* the identifiers of the $var declarations of the header, in order
DeclaredCodes ==
  LET decl == SelectSeq(out, LAMBDA t : t.tok = "$var") IN
    [i \in 1..Len(decl) |-> decl[i].a]

\* C3: every sample() emits exactly one scalar change per pin registered on
\* the builder, in registration order, with the encoding of the state the
\* pin's cell has at the call, changed since the last sample or not, and no
\* change is ever emitted for an identifier that was not registered.
C3_SampleEmitsEveryPin ==
  /\ [i \in 1..Len(wpins) |-> wpins[i].code] = DeclaredCodes
  /\ \A k \in Samples :
       /\ Len(Emitted(k)) = Len(wpins)
       /\ \A i \in 1..Len(wpins) :
            Emitted(k)[i] = ChangeTok(DeclaredCodes[i], Encoding(wlog[k].snap[i]))
  /\ \A i \in 1..Len(out) :
       out[i].tok = "change" =>
         /\ wphase = "writer"
         /\ \E j \in 1..Len(DeclaredCodes) : DeclaredCodes[j] = out[i].b

\* two samples in a row of two pins that did not change in between
C3_Witness ==
  /\ Len(wpins) = 2
  /\ \E k \in Samples :
       /\ k + 1 \in Samples
       /\ wlog[k].snap = wlog[k + 1].snap
       /\ wlog[k].snap[1] # wlog[k].snap[2]

HeaderToks == {"$timescale", "$scope", "$var", "$upscope", "$enddefinitions"}

\* the tokens on the sink after $enddefinitions
BodyOf(o) ==
  LET e == CHOOSE i \in 1..Len(o) : o[i].tok = "$enddefinitions" IN
    SubSeq(o, e + 1, Len(o))

\* the header and the body of the test write_simple
WriteSimpleHeader ==
  << TimescaleTok(1, "ns"), ScopeTok("logic"), VarTok(1, "!", "test"),
     UpscopeTok, EndDefinitionsTok >>

WriteSimpleBody ==
  << TimestampTok(U(0)), ChangeTok("!", "V0"),
     TimestampTok(U(100)), ChangeTok("!", "V1"),
     TimestampTok(U(200)), ChangeTok("!", "V1"),
     TimestampTok(U(300)), ChangeTok("!", "V0"),
     TimestampTok(U(400)), TimestampTok(U(500)) >>

\* C4: the sink holds the header (timescale 1 ns first, the scopes and
\* variables, upscope, enddefinitions), written once and before any body
\* token, then what the timestamp() and sample() calls wrote, in call order:
\* a successful timestamp(d) wrote the one marker #d and nothing else. The
\* calls of write_simple give the body #0 0! #100 1! #200 1! #300 0! #400
\* #500 with identifier "!".
C4_OutputStream ==
  wphase = "writer" =>
    LET e == CHOOSE i \in 1..Len(out) : out[i].tok = "$enddefinitions" IN
      /\ out[1] = TimescaleTok(1, "ns")
      /\ out[2].tok = "$scope"
      /\ out[e - 1] = UpscopeTok
      /\ \A i \in 1..Len(out) : (out[i].tok \in HeaderToks) <=> (i <= e)
      /\ \A i \in 2..Len(out) : out[i].tok # "$timescale"
      /\ \A k \in 1..Len(wlog) :
           /\ wlog[k].from = IF k = 1 THEN e ELSE wlog[k - 1].from + Len(Emitted(k - 1))
           /\ (wlog[k].op = "timestamp" /\ wlog[k].ok)
                => /\ Len(Emitted(k)) = 1
                   /\ Emitted(k)[1].tok = "#"
                   /\ wlog[k].arg.unit = "ns"
                        => Emitted(k)[1] = TimestampTok(wlog[k].arg.integer)
                   /\ wlog[k].arg = Duration(U(2), "us")
                        => Emitted(k)[1] = TimestampTok(U(2000))
           /\ wlog[k].op = "sample"
                => \A i \in 1..Len(Emitted(k)) : Emitted(k)[i].tok = "change"
      /\ (Len(wlog) = 0 => Len(out) = e)
      /\ (Len(wlog) > 0 => wlog[Len(wlog)].from + Len(Emitted(Len(wlog))) = Len(out))
      /\ (caller = WriteSimpleCaller /\ pc = Len(WriteSimple))
           => out = WriteSimpleHeader \o WriteSimpleBody

\* write_simple has made all its calls
C4_Witness ==
  /\ caller = WriteSimpleCaller
  /\ pc = Len(WriteSimple)
  /\ BodyOf(out) = WriteSimpleBody

----------------------------------------------------------------------------
(* Claims about PinState and the pin handles. *)

\* C5: encoding a PinState and decoding the value gives the state back
\* (High->1->High, Low->0->Low, Floating->Z->Floating); X decodes to
\* Floating; no state encodes to X, so decoding and encoding again is the
\* identity on 0, 1, Z and takes X to Z. What sample() emits decodes to the
\* state it sampled.
C5_ValueMapping ==
  /\ ValueFromPinState("High") = "V1" /\ PinStateFromValue("V1") = "High"
  /\ ValueFromPinState("Low") = "V0" /\ PinStateFromValue("V0") = "Low"
  /\ ValueFromPinState("Floating") = "Z" /\ PinStateFromValue("Z") = "Floating"
  /\ PinStateFromValue("X") = "Floating"
  /\ \A state \in PinState :
       /\ PinStateFromValue(ValueFromPinState(state)) = state
       /\ ValueFromPinState(state) # "X"
  /\ \A val \in VcdValue :
       ValueFromPinState(PinStateFromValue(val)) = IF val = "X" THEN "Z" ELSE val
  /\ \A k \in Samples : \A i \in 1..Len(Emitted(k)) :
       /\ Emitted(k)[i].a \in VcdValue \ {"X"}
       /\ PinStateFromValue(Emitted(k)[i].a) = wlog[k].snap[i]

\* samples have emitted 1, 0 and Z
C5_Witness ==
  \A val \in {"V0", "V1", "Z"} :
    \E i \in 1..Len(out) : out[i].tok = "change" /\ out[i].a = val

\* C6: a push-pull handle stores High on set_high and Low on set_low,
\* whatever the cell held; right after set_high is_high and is_set_high are
\* true and is_low and is_set_low false, right after set_low the reverse.
C6_PushPull ==
  [][\A c \in 1..Len(cells) :
       /\ PushPullPin_try_set_high(c) =>
            /\ cells'[c].state = 1
            /\ PushPullPin_try_is_high(c)' /\ PushPullPin_try_is_set_high(c)'
            /\ ~PushPullPin_try_is_low(c)' /\ ~PushPullPin_try_is_set_low(c)'
       /\ PushPullPin_try_set_low(c) =>
            /\ cells'[c].state = 2
            /\ PushPullPin_try_is_low(c)' /\ PushPullPin_try_is_set_low(c)'
            /\ ~PushPullPin_try_is_high(c)' /\ ~PushPullPin_try_is_set_high(c)']_vars

\* set_high on a push-pull handle whose cell was made Floating
C6_Witness ==
  /\ last.op = "try_set_high"
  /\ cells[last.arg[1]].kind = "PushPullPin"
  /\ cells[last.arg[1]].init = "Floating"
  /\ PushPullPin_try_is_high(last.arg[1])

\* C7: an open-drain (open-gain) handle stores Low on set_high and Floating
\* on set_low, whatever the cell held; after set_high is_high is false,
\* is_low true and is_set_high true; after set_low is_high and is_low are
\* false and is_set_low true.
C7_OpenDrain ==
  [][\A c \in 1..Len(cells) :
       /\ OpenDrainPin_try_set_high(c) =>
            /\ cells'[c].state = 2
            /\ ~OpenDrainPin_try_is_high(c)' /\ OpenDrainPin_try_is_low(c)'
            /\ OpenDrainPin_try_is_set_high(c)'
       /\ OpenDrainPin_try_set_low(c) =>
            /\ cells'[c].state = 3
            /\ ~OpenDrainPin_try_is_high(c)' /\ ~OpenDrainPin_try_is_low(c)'
            /\ OpenDrainPin_try_is_set_low(c)'
       /\ OpenGainPin_try_set_high(c) =>
            /\ cells'[c].state = 2
            /\ ~OpenGainPin_try_is_high(c)' /\ OpenGainPin_try_is_low(c)'
       /\ OpenGainPin_try_set_low(c) =>
            /\ cells'[c].state = 3
            /\ ~OpenGainPin_try_is_high(c)' /\ ~OpenGainPin_try_is_low(c)']_vars

\* set_low on an open-drain handle whose cell was made High
C7_Witness ==
  /\ last.op = "try_set_low"
  /\ cells[last.arg[1]].kind = "OpenDrainPin"
  /\ cells[last.arg[1]].init = "High"
  /\ OpenDrainPin_try_is_set_low(last.arg[1])

\* C8: through a handle of any variant is_high is true exactly when the cell
\* is High and is_low exactly when it is Low: never both, and both false
\* exactly when the cell is Floating, as for a pin of get_pin before the
\* next advance.
C8_ReadsAreCellState ==
  /\ \A c \in 1..Len(cells) :
       /\ try_is_high(c) <=> cells[c].state = 1
       /\ try_is_low(c) <=> cells[c].state = 2
       /\ ~(try_is_high(c) /\ try_is_low(c))
       /\ (~try_is_high(c) /\ ~try_is_low(c)) <=> cells[c].state = 3
  /\ \A c \in ReaderCells :
       cells[c].reg = Len(returned) =>
         ~InputPin_try_is_high(c) /\ ~InputPin_try_is_low(c)

\* the reader's pin reads high while a caller's handle of another variant
\* floats
C8_Witness ==
  /\ \E c \in ReaderCells : InputPin_try_is_high(c)
  /\ \E c \in 1..Len(cells) :
       /\ cells[c].kind \in OutputKinds
       /\ ~try_is_high(c) /\ ~try_is_low(c)

----------------------------------------------------------------------------
(* Claims about what the reader ignores and about late registration. *)

\* the body commands between parser positions lo (exclusive) and hi
Segment(lo, hi) == (lo + 1)..hi

\* a command next() passes over: a scalar change whose identifier has no
\* cell in the table, or an item that is neither a timestamp nor a scalar
\* change
Ignored(cmd) ==
  \/ cmd.cmd = "Other"
  \/ cmd.cmd = "ChangeScalar" /\ cmd.id \notin DOMAIN pins

\* C11: a scalar change for an identifier without a registered cell, and an
\* item that is no timestamp and no scalar change, change no cell and raise
\* no error; next() scans on past them to the next marker, and the values
\* returned are those of the markers alone, as if the item were absent.
C11_IgnoredTokens ==
  /\ [][VcdReader_next =>
          /\ \A i \in Segment(pos, pos' - 1) : body[i].cmd # "Timestamp"
          /\ \A c \in 1..Len(cells) :
               (\A i \in Segment(pos, pos') :
                  Ignored(body[i]) \/ body[i].cmd = "Timestamp"
                    \/ pins[body[i].id] # c)
                 => cells'[c] = cells[c]
          /\ last'.ret = "None" => pos' = Len(body)
          /\ last'.ret # "None" =>
               /\ body[pos'].cmd = "Timestamp"
               /\ last'.ret = "panic" => MulSmall(body[pos'].t, scale.integer).carry # 0
               /\ last'.ret = "Some" =>
                    returned' = Append(returned, Some(MulSmall(body[pos'].t, scale.integer).lo))]_vars
  /\ [](rphase \in {"ready", "panicked"} =>
          \A i \in 1..Len(returned) :
            IF i <= Len(Markers(body))
            THEN returned[i] = Some(MulSmall(Markers(body)[i].t, scale.integer).lo)
            ELSE returned[i] = None)

\* next() returned a timestamp after passing a change nobody registered
\* for, while a registered pin holds what the body gave it
C11_Witness ==
  /\ last.op = "next" /\ last.ret = "Some"
  /\ pos >= 2
  /\ body[pos - 1].cmd = "ChangeScalar" /\ Ignored(body[pos - 1])
  /\ \E id \in DOMAIN pins : load(pins[id]) = "High"


\* the parser position at which get_pin made cell c: behind the marker the
\* last next() before it returned, or at the end of the body
RegPos(c) ==
  LET marks == {i \in 1..Len(body) : body[i].cmd = "Timestamp"}
      k == cells[c].reg
  IN  IF k = 0 THEN 0
      ELSE IF k > Cardinality(marks) THEN Len(body)
      ELSE CHOOSE i \in marks : Cardinality({j \in marks : j <= i}) = k

\* a scalar change for the identifier of cell c
ChangeFor(cmd, c) == cmd.cmd = "ChangeScalar" /\ cmd.id = cells[c].code

\* C12: get_pin on a declared path returns a handle over a new cell that is
\* Floating however far the body has been read, touching no other cell; no
\* change read before is applied to it: the handle reads Floating (neither
\* high nor low) as long as no change for its identifier has been scanned
\* since.
C12_LateRegistration ==
  /\ [][\A path \in Paths :
          (VcdReader_get_pin(path) /\ Declared(header, path)) =>
             /\ last'.ret = "Some"
             /\ Len(cells') = Len(cells) + 1
             /\ cells'[Len(cells')].state = 3
             /\ \A c \in 1..Len(cells) : cells'[c] = cells[c]
             /\ pos' = pos]_vars
  /\ [](\A c \in ReaderCells :
          (\A i \in Segment(RegPos(c), pos) : ~ChangeFor(body[i], c))
            => /\ load(c) = "Floating"
               /\ ~InputPin_try_is_high(c) /\ ~InputPin_try_is_low(c))

\* a pin made after a change to high for its variable had been read, and
\* still Floating one marker later
C12_Witness ==
  \E c \in ReaderCells :
    /\ cells[c].reg >= 1
    /\ LastChange(body, RegPos(c), cells[c].code) = "High"
    /\ pos > RegPos(c)
    /\ load(c) = "Floating"


----------------------------------------------------------------------------
(* Claims about the builder and about timestamp(). *)

\* the cell registered i-th on the builder
PinCell(i) == cells[wpins[i].cell]

\* C13: a push-pull pin added to the builder starts Low and an open-drain
\* (open-gain) pin starts Floating; a sample() that finds the pin as it was
\* made emits 0 for a push-pull pin and Z for an open-drain pin.
C13_InitialStates ==
  /\ \A i \in 1..Len(wpins) :
       /\ PinCell(i).kind = "PushPullPin" => PinCell(i).init = "Low"
       /\ PinCell(i).kind \in {"OpenDrainPin", "OpenGainPin"} => PinCell(i).init = "Floating"
  /\ \A k \in Samples : \A i \in 1..Len(wpins) :
       wlog[k].snap[i] = PinCell(i).init =>
         /\ PinCell(i).kind = "PushPullPin" => Emitted(k)[i].a = "V0"
         /\ PinCell(i).kind \in {"OpenDrainPin", "OpenGainPin"} => Emitted(k)[i].a = "Z"

\* The same for the pins of the builder of writer.rs.
C13_InitialStatesOfWriterRs ==
  /\ \A i \in 1..Len(wpins) :
       PinCell(i).owner = "writer" =>
         /\ PinCell(i).kind = "PushPullPin" => PinCell(i).init = "Low"
         /\ PinCell(i).kind = "OpenDrainPin" => PinCell(i).init = "Floating"
  /\ \A k \in Samples : \A i \in 1..Len(wpins) :
       (PinCell(i).owner = "writer" /\ wlog[k].snap[i] = PinCell(i).init) =>
         /\ PinCell(i).kind = "PushPullPin" => Emitted(k)[i].a = "V0"
         /\ PinCell(i).kind = "OpenDrainPin" => Emitted(k)[i].a = "Z"


\* the durations of a caller that are more than 2^64 - 1 nanoseconds
TooLong(d) == d = Duration(U64Max, "s")

\* a duration that is not too long, in whole nanoseconds
InNanoseconds(d) ==
  CASE d.unit = "ns" -> d.integer
    [] d = Duration(U(2), "us") -> U(2000)

\* C14: timestamp(d) with a duration that does not convert to whole
\* nanoseconds returns an error for that call only: nothing is written, the
\* registered pins and every cell stay as they were, and the writer serves
\* the calls that follow: a later timestamp() writes its marker and a later
\* sample() one change per pin.
C14_TimestampError ==
  /\ [][\A d \in AnyDurations :
          VcdWriter_timestamp(d) =>
            /\ last'.ret = "Err" <=> TooLong(d)
            /\ TooLong(d) =>
                 /\ out' = out
                 /\ wpins' = wpins
                 /\ cells' = cells
                 /\ wphase' = "writer"]_vars
  /\ [](\A k \in 1..Len(wlog) :
          (wlog[k].op = "timestamp" /\ ~wlog[k].ok) =>
            /\ Emitted(k) = << >>
            /\ k < Len(wlog) =>
                 /\ wlog[k + 1].ok <=> ~TooLong(wlog[k + 1].arg)
                 /\ (wlog[k + 1].op = "timestamp" /\ wlog[k + 1].ok)
                      => Emitted(k + 1) = << TimestampTok(InNanoseconds(wlog[k + 1].arg)) >>
                 /\ wlog[k + 1].op = "sample"
                      => Emitted(k + 1) =
                           [i \in 1..Len(wpins) |->
                              ChangeTok(wpins[i].code, Encoding(wlog[k + 1].snap[i]))])
  /\ []((last.op = "timestamp" /\ last.ret = "Err") =>
          /\ ENABLED VcdWriter_sample
          /\ \A d \in AnyDurations : ENABLED VcdWriter_timestamp(d))

\* a timestamp() that failed, followed by a sample() of two pins
C14_Witness ==
  \E k \in 1..Len(wlog) :
    /\ wlog[k].op = "timestamp" /\ ~wlog[k].ok
    /\ k + 1 \in Samples
    /\ Len(Emitted(k + 1)) = 2


----------------------------------------------------------------------------
(* Claims about the timescale. *)

\* how many of a unit make a second: 1, 10^3, 10^6, 10^9, 10^12, 10^15
UnitsPerSecond(unit) ==
  CASE unit = "s" -> <<1, 0, 0, 0>>
    [] unit = "ms" -> <<1000, 0, 0, 0>>
    [] unit = "us" -> <<16960, 15, 0, 0>>
    [] unit = "ns" -> <<51712, 15258, 0, 0>>
    [] unit = "ps" -> <<4096, 54437, 232, 0>>
    [] unit = "fs" -> <<32768, 42182, 36222, 3>>

\* C15: for every unit of s, ms, us, ns, ps, fs and every positive scale the
\* timescale the reader resolves is the declared scale over the unit's
\* divisor (1, 10^3, 10^6, 10^9, 10^12, 10^15 per second), the divisor not
\* truncated by its narrowing to the 32-bit denominator.
C15_ResolvedTimescale ==
  rphase = "ready" =>
    /\ scale.integer = header.timescale[1].scale
    /\ scale.scaling_factor.numerator = 1
    /\ scale.scaling_factor.denominator = UnitsPerSecond(header.timescale[1].unit)

\* The same for the units whose divisor fits 32 bits.
C15_ResolvedTimescaleToNanoseconds ==
  (rphase = "ready" /\ header.timescale[1].unit \in {"s", "ms", "us", "ns"}) =>
    /\ scale.integer = header.timescale[1].scale
    /\ scale.scaling_factor.numerator = 1
    /\ scale.scaling_factor.denominator = UnitsPerSecond(header.timescale[1].unit)


----------------------------------------------------------------------------
(* Claims about the cells under concurrent use. The steps of the model are  *)
(* the sequentially consistent accesses of the threads, in their one order. *)

\* a handle of cell c never waits: its operations can be taken at once
NeverWaits(c) ==
  /\ ENABLED AtomicPinState_load(c)
  /\ cells[c].owner = "user" => \A state \in PinState : ENABLED AtomicPinState_store(c, state)
  /\ cells[c].kind = "PushPullPin" =>
       ENABLED PushPullPin_try_set_high(c) /\ ENABLED PushPullPin_try_set_low(c)
  /\ cells[c].kind = "OpenDrainPin" =>
       ENABLED OpenDrainPin_try_set_high(c) /\ ENABLED OpenDrainPin_try_set_low(c)
  /\ cells[c].kind = "OpenGainPin" =>
       ENABLED OpenGainPin_try_set_high(c) /\ ENABLED OpenGainPin_try_set_low(c)

\* C16: however the stores of the decoder and of the producer handles and
\* the loads of other threads interleave, every load of a cell returns what
\* the most recent store to it was called with (the state it was made with
\* if there was none), always one of High, Low, Floating, never a torn or
\* never-written value; and no handle operation waits for another thread.
C16_LoadsSeeTheLastStore ==
  /\ [][\A c \in 1..Len(cells) :
          AtomicPinState_load(c) =>
            /\ last'.ret = cells[c].written
            /\ last'.ret \in PinState
            /\ cells' = cells]_vars
  /\ [](\A c \in 1..Len(cells) :
          /\ load(c) \in PinState
          /\ load(c) = cells[c].written
          /\ NeverWaits(c))

\* a load of a caller's cell that returned what a store put there, while
\* the decoder has driven its own cell
C16_Witness ==
  /\ last.op = "load" /\ last.ret = "Low"
  /\ cells[last.arg[1]].owner = "user"
  /\ cells[last.arg[1]].init = "High"
  /\ \E c \in ReaderCells : load(c) = "High"


----------------------------------------------------------------------------
(* Claims about the scopes of the header. *)

\* how many tokens of a kind the sink holds
CountOf(tok) == Cardinality({i \in 1..Len(out) : out[i].tok = tok})

\* C17: build() closes the scope and ends the header: whatever add_module
\* and pin registrations came before it, every $scope the constructor or
\* add_module opened is matched by an $upscope before $enddefinitions.
C17_BalancedScopes ==
  wphase = "writer" =>
    /\ CountOf("$upscope") = CountOf("$scope")
    /\ depth = 0
    /\ \A i \in 1..Len(out) :
         out[i].tok \in {"$scope", "$upscope"} =>
           \E e \in (i + 1)..Len(out) : out[e].tok = "$enddefinitions"

\* The same for the builders on which add_module was not called.
C17_BalancedWithoutAddModule ==
  (wphase = "writer" /\ CountOf("$scope") = 1) =>
    /\ CountOf("$upscope") = 1
    /\ depth = 0


----------------------------------------------------------------------------
(* Claims about the bindings of the reader and the end of the sequence. *)

\* what the changes of the body scanned since cell c was made leave in it:
\* the value of the last of them, Floating if there is none
LastChangeSince(c) ==
  LET at == {i \in Segment(RegPos(c), pos) : ChangeFor(body[i], c)} IN
    IF at = {} THEN "Floating"
    ELSE PinStateFromValue(body[CHOOSE i \in at : \A j \in at : j <= i].val)

\* C19: every cell get_pin made stays bound to its identifier in the reader
\* for the rest of the session, also after further get_pin calls on the same
\* or on other paths, so every handle get_pin ever returned observes all
\* changes of its variable scanned after it was made.
C19_CellsStayBound ==
  \A c \in ReaderCells :
    /\ cells[c].code \in DOMAIN pins
    /\ pins[cells[c].code] = c
    /\ load(c) = LastChangeSince(c)

\* The cell the table binds to an identifier observes all changes of it
\* scanned after the cell was made.
C19_BoundCellsObserve ==
  \A id \in DOMAIN pins : load(pins[id]) = LastChangeSince(pins[id])

\* C20: the sequence of next() is finite and single-pass: on a finite body
\* every call returns; it returns at most as many timestamps as the body
\* has markers; the call that returns end-of-sequence has read the body to
\* its end and applied the changes behind the last marker; and once
\* end-of-sequence was returned a later call returns it again and changes
\* no cell.
C20_SinglePass ==
  /\ [][(VcdReader_next /\ returned # << >> /\ returned[Len(returned)] = None) =>
          /\ last'.ret = "None"
          /\ returned' = Append(returned, None)
          /\ cells' = cells
          /\ pos' = pos]_vars
  /\ []((rphase = "ready" /\ ~Exhausted) => ENABLED VcdReader_next)
  /\ [](\A i \in 1..Len(returned) :
          /\ returned[i] # None => i <= Len(Markers(body))
          /\ returned[i] = None => \A j \in i..Len(returned) : returned[j] = None)
  /\ []((last.op = "next" /\ last.ret = "None") =>
          /\ pos = Len(body)
          /\ \A id \in DOMAIN pins : load(pins[id]) = LastChangeSince(pins[id]))

\* end-of-sequence returned twice over a body that ends with a change to
\* high behind its last marker, and the pin reads high
C20_Witness ==
  /\ Exhausted
  /\ Markers(body) # << >>
  /\ body[Len(body)] = ChangeScalar("t", "V1")
  /\ \E c \in ReaderCells : cells[c].code = "t" /\ InputPin_try_is_high(c)


----------------------------------------------------------------------------
(* Claims about replaying a trace from the reader to the writer. *)

\* the index of the i-th timestamp marker of body b
MarkerIndex(b, i) ==
  LET marks == {j \in 1..Len(b) : b[j].cmd = "Timestamp"} IN
    CHOOSE j \in marks : Cardinality({k \in marks : k <= j}) = i

\* what a reader's pin for identifier id holds at each timestamp of body b,
\* when registered before the first next()
StatesAt(b, id) ==
  [i \in 1..Len(Markers(b)) |-> LastChange(b, MarkerIndex(b, i) - 1, id)]

\* the ticks of the markers of body b
TicksOf(b) == [i \in 1..Len(Markers(b)) |-> Markers(b)[i].t]

\* the body the writer has put on the sink, as a reader's parser delivers it
OutBody ==
  LET o == BodyOf(out) IN
    [i \in 1..Len(o) |->
       IF o[i].tok = "#" THEN Timestamp(o[i].num) ELSE ChangeScalar(o[i].b, o[i].a)]

\* C18: when main of in_out has copied a single-signal trace of values 0
\* and 1 with timescale 1 ns (first timestamp written at once; for each
\* further one copy the pin, sample, write it; at the end copy and sample
\* once more), the output has the timestamps of the input and, decoded
\* again, gives the pin state of the input at every timestamp.
C18_ReplayEquivalence ==
  (main_at = "done" /\ \E i \in 1..Len(body) : body[i].cmd = "ChangeScalar") =>
    /\ TicksOf(OutBody) = TicksOf(body)
    /\ StatesAt(OutBody, wpins[1].code) = StatesAt(body, "t")

\* The same for the traces whose signal is not driven before the first
\* marker and is driven before every later one.
C18_ReplayOfDrivenTraces ==
  (/\ main_at = "done"
   /\ StatesAt(body, "t")[1] = "Floating"
   /\ \A i \in 2..Len(Markers(body)) : StatesAt(body, "t")[i] # "Floating") =>
    /\ TicksOf(OutBody) = TicksOf(body)
    /\ StatesAt(OutBody, wpins[1].code) = StatesAt(body, "t")


----------------------------------------------------------------------------
(* Claims about the order of the markers and about open-drain pins. *)

\* the markers timestamp() has written, in order
MarkersWritten == SelectSeq(out, LAMBDA t : t.tok = "#")

\* the last two markers written are not in increasing order
OutOfOrder ==
  LET m == MarkersWritten IN
    /\ Len(m) >= 2
    /\ m[Len(m)] \in {TimestampTok(U(100))}
    /\ m[Len(m) - 1] \in {TimestampTok(U(100)), TimestampTok(U(2000))}

\* C21: the writer does not enforce increasing markers: timestamp(d)
\* returns Ok and appends the marker #d for every d that converts, whatever
\* was written before, also for a d equal to or smaller than the last
\* marker; and after such a call the writer serves timestamp() and sample()
\* as before.
C21_NoMonotonicityCheck ==
  /\ [][\A d \in AnyDurations :
          (VcdWriter_timestamp(d) /\ ~TooLong(d)) =>
             /\ last'.ret = "Ok"
             /\ out' = Append(out, TimestampTok(InNanoseconds(d)))]_vars
  /\ [](OutOfOrder =>
          /\ ENABLED (VcdWriter_timestamp(Duration(U(100), "ns"))
                        /\ last'.ret = "Ok"
                        /\ out' = Append(out, TimestampTok(U(100))))
          /\ ENABLED (VcdWriter_sample
                        /\ out' = out \o [i \in 1..Len(wpins) |->
                                            ChangeTok(wpins[i].code, Encoding(Snapshot[i]))]))

\* #100 written after #2000, both calls Ok
C21_Witness ==
  /\ Len(wlog) >= 2
  /\ wlog[Len(wlog) - 1].arg = Duration(U(2), "us") /\ wlog[Len(wlog) - 1].ok
  /\ wlog[Len(wlog)].arg = Duration(U(100), "ns") /\ wlog[Len(wlog)].ok
  /\ wlog[Len(wlog)].op = "timestamp" /\ wlog[Len(wlog) - 1].op = "timestamp"
  /\ OutOfOrder
  /\ Len(wpins) >= 1

\* C22: a cell made by add_open_drain_pin and written only through its
\* open-drain handle is Floating or Low in every reachable state, never
\* High: is_high on the pin is false and every sample() writes 0 or Z for
\* it.
C22_OpenDrainNeverHigh ==
  \A i \in 1..Len(wpins) :
    PinCell(i).kind = "OpenDrainPin" =>
      /\ load(wpins[i].cell) \in {"Floating", "Low"}
      /\ ~OpenDrainPin_try_is_high(wpins[i].cell)
      /\ \A j \in 1..Len(out) :
           (out[j].tok = "change" /\ out[j].b = wpins[i].code) => out[j].a \in {"V0", "Z"}

\* an open-drain pin sampled released and sampled again pulled low
C22_Witness ==
  \E i \in 1..Len(wpins) :
    /\ PinCell(i).kind = "OpenDrainPin"
    /\ \E j, k \in 1..Len(out) :
         /\ j < k
         /\ out[j] = ChangeTok(wpins[i].code, "Z")
         /\ out[k] = ChangeTok(wpins[i].code, "V0")


----------------------------------------------------------------------------
(* Claims about the arithmetic of next(). *)

\* C23: the conversion of a tick in next() is exact for every 64-bit tick
\* and every scale of 1, 10, 100: the integer returned is the product of
\* scale and tick, which never overflows 64 bits: no wrap-around and no
\* abort.
C23_ExactProduct ==
  (header.timescale # None /\ header.timescale[1].scale \in {1, 10, 100}) =>
    /\ rphase # "panicked"
    /\ \A i \in 1..Len(returned) :
         returned[i] # None =>
           /\ MulSmall(Markers(body)[i].t, header.timescale[1].scale).carry = 0
           /\ returned[i][1] = MulSmall(Markers(body)[i].t, header.timescale[1].scale).lo


----------------------------------------------------------------------------
(* Claims about sample() while a producer writes. *)

\* the states the registered cells had when call k loaded its i-th pin:
\* those of the last entry of the log made before that load
HeldAtLoad(k, i) ==
  LET before == {j \in k..Len(wlog) : wlog[j].from <= wlog[k].from + i - 1} IN
    wlog[CHOOSE j \in before : \A h \in before : h <= j].snap

\* every combination of states the registered cells have held together
JointHistory ==
  {[i \in 1..Len(wpins) |-> PinCell(i).init]}
    \cup {wlog[j].snap : j \in 1..Len(wlog)}

\* C24: sample() is no atomic snapshot across pins: it loads the cells one
\* at a time, in registration order, and each value it writes is the one
\* its own cell held at the instant of that load, an instant during the
\* call; with a producer writing between the loads the values of one call
\* need not have been held together at any instant.
C24_EachValueWasHeld ==
  \A k \in SampleCalls : \A i \in 1..Len(wpins) :
    wlog[k].from + i <= Len(out) =>
      out[wlog[k].from + i] =
        ChangeTok(wpins[i].code, Encoding(HeldAtLoad(k, i)[i]))

\* one sample() of two pins has written a pair of values the two cells
\* never held at the same instant
C24_Witness ==
  \E k \in SampleCalls :
    /\ Len(wpins) = 2
    /\ wlog[k].from + 2 <= Len(out)
    /\ \A joint \in JointHistory :
         <<Encoding(joint[1]), Encoding(joint[2])>>
           # <<out[wlog[k].from + 1].a, out[wlog[k].from + 2].a>>


----------------------------------------------------------------------------
(* Claims about the direction of the data flow. *)

\* the cells registered on the writer
WriterCells == {wpins[i].cell : i \in 1..Len(wpins)}

\* the cells the reader's table binds
BoundCells == {pins[id] : id \in DOMAIN pins}

\* C25: data flows one way on each side: timestamp() and sample() only
\* load cells and leave every cell as it was; next() stores only to cells
\* bound in the reader's table and never to a cell of the writer; reads and
\* writes through handles change neither the reader's table nor the
\* writer's registered pins nor what has been written to the sink.
C25_OneWayDataFlow ==
  [][/\ VcdWriter_sample =>
          cells' = cells /\ pins' = pins /\ wpins' = wpins
     /\ (returned # << >> /\ returned[Len(returned)] # None
           /\ VcdWriter_timestamp(GenericOf(returned[Len(returned)]))) =>
          cells' = cells /\ pins' = pins /\ wpins' = wpins
     /\ VcdReader_next =>
          /\ \A c \in 1..Len(cells) : cells'[c] # cells[c] => c \in BoundCells
          /\ \A c \in WriterCells : cells'[c] = cells[c]
          /\ out' = out /\ wpins' = wpins /\ pins' = pins
     /\ (ReaderCells # {} /\ wpins # << >> /\ copy_pins) =>
          /\ pins' = pins /\ wpins' = wpins /\ out' = out
          /\ \A c \in ReaderCells : cells'[c] = cells[c]
          /\ Len(cells') = Len(cells)]_vars

\* next() has driven the reader's pin high while the writer's pin, sampled
\* before, is still low
C25_Witness ==
  /\ last.op = "next" /\ last.ret = "Some"
  /\ \E c \in BoundCells : load(c) = "High"
  /\ \E c \in WriterCells : load(c) = "Low"
  /\ \E i \in 1..Len(out) : out[i].tok = "change"


=============================================================================
